---- MODULE Spec2Model ----
(***************************************************************************)
(* Model of the book catalog service: the in-memory repository             *)
(* (app/repositories/book_repository.py), its string normalisation         *)
(* (app/utils/common_utils.py), the request models (app/models/book.py)    *)
(* and the pagination service (app/services/pagination_service.py).        *)
(*                                                                         *)
(* A Python str is a sequence of one-character strings; an Optional[T] is  *)
(* the empty sequence (None) or a one-element sequence holding the value.  *)
(* The dict _books is a sequence of records in insertion order with        *)
(* pairwise distinct ids.                                                  *)
(***************************************************************************)
EXTENDS Integers, Sequences, FiniteSets, TLC

VARIABLES books, next_id, op, arg, ret, handed, seen, loads, creates, lateLoad, loadedIds,
          acc, cursor, pc, local, app_state, lifespan

vars == <<books, next_id, op, arg, ret, handed, seen, loads, creates, lateLoad, loadedIds,
          acc, cursor, pc, local, app_state, lifespan>>

\* the attributes set on app.state and the position of the lifespan coroutine
app == <<app_state, lifespan>>

AppIdle == app_state = {} /\ lifespan = "start"

\* a client's walk through the pages (acc, cursor), the threads or tasks of
\* concurrent calls (pc, local), and the application around the repository
aux == <<acc, cursor, pc, local, app_state, lifespan>>

AuxIdle == acc = <<>> /\ cursor = 0 /\ pc = <<>> /\ local = <<>> /\ AppIdle

(***************************************************************************)
(* Bounds of the model                                                     *)
(***************************************************************************)
MaxCreates == 2
MaxLoads == 2
MaxLoadLen == 2
MaxLoadId == 2
MaxBooks == 3
MaxSeqLen == 5
MaxPage == 6
MaxLimit == 3

\* BookFilters.limit default
DefaultLimit == 10

(***************************************************************************)
(* Optional values and Python truthiness                                   *)
(***************************************************************************)
None == <<>>

Some(v) == <<v>>

TruthyStr(o) == o # None /\ o[1] # <<>>

TruthyInt(o) == o # None /\ o[1] # 0

TruthyList(o) == o # None /\ o[1] # <<>>

(***************************************************************************)
(* Strings: characters, code points, str.strip, str.lower, `in`, `<`       *)
(***************************************************************************)
Chars == {" ", "A", "B", "a", "b"}

Ord == (" " :> 32) @@ ("A" :> 65) @@ ("B" :> 66) @@ ("a" :> 97) @@ ("b" :> 98)

LowerChar == (" " :> " ") @@ ("A" :> "a") @@ ("B" :> "b") @@ ("a" :> "a") @@ ("b" :> "b")

isspace(c) == c = " "

RECURSIVE lstrip(_)
lstrip(s) == IF s # <<>> /\ isspace(Head(s)) THEN lstrip(Tail(s)) ELSE s

RECURSIVE rstrip(_)
rstrip(s) == IF s # <<>> /\ isspace(s[Len(s)]) THEN rstrip(SubSeq(s, 1, Len(s) - 1)) ELSE s

strip(s) == rstrip(lstrip(s))

lower(s) == [i \in 1..Len(s) |-> LowerChar[s[i]]]

\* needle in hay
Contains(needle, hay) ==
    \E i \in 0..(Len(hay) - Len(needle)) : SubSeq(hay, i + 1, i + Len(needle)) = needle

\* a < b on str: lexicographic by code point, a proper prefix is smaller
RECURSIVE StrLess(_, _)
StrLess(a, b) ==
    IF b = <<>> THEN FALSE
    ELSE IF a = <<>> THEN TRUE
    ELSE IF Ord[Head(a)] # Ord[Head(b)] THEN Ord[Head(a)] < Ord[Head(b)]
    ELSE StrLess(Tail(a), Tail(b))

\* normalisation that forgets .lower()
normalize_string_nolower(value) == IF value # <<>> THEN strip(value) ELSE <<>>

normalize_string(value) == IF value # <<>> THEN lower(strip(value)) ELSE <<>>

(***************************************************************************)
(* Request models (pydantic): str_strip_whitespace strips every str field  *)
(***************************************************************************)
BookCreate(raw) ==
    [title |-> strip(raw.title), author |-> strip(raw.author),
     year |-> raw.year, tags |-> raw.tags]

BookResponse(id, title, author, year, tags) ==
    [id |-> id, title |-> strip(title), author |-> strip(author),
     year |-> year, tags |-> tags]

(***************************************************************************)
(* The dict _books as an insertion-ordered sequence                        *)
(***************************************************************************)
Ids(bks) == {bks[i].id : i \in 1..Len(bks)}

Index(bks, id) == CHOOSE i \in 1..Len(bks) : bks[i].id = id

\* a new key put first instead of last
DictSetFirst(bks, book) ==
    IF book.id \in Ids(bks)
    THEN [bks EXCEPT ![Index(bks, book.id)] = book]
    ELSE <<book>> \o bks

\* d[key] = value : an existing key keeps its position, a new key goes last
DictSet(bks, book) ==
    IF book.id \in Ids(bks)
    THEN [bks EXCEPT ![Index(bks, book.id)] = book]
    ELSE Append(bks, book)

\* the newest entry removed (popitem) instead of the entry of the key
DictDelLast(bks, id) == SubSeq(bks, 1, Len(bks) - 1)

\* del d[key]
DictDel(bks, id) ==
    LET k == Index(bks, id)
    IN  SubSeq(bks, 1, k - 1) \o SubSeq(bks, k + 1, Len(bks))

\* max() taken as its last argument
PyMaxLast(a, b) == b

PyMax(a, b) == IF a >= b THEN a ELSE b

(***************************************************************************)
(* InMemoryBookRepository: each method as a function of the fields         *)
(***************************************************************************)
\* _next_id set to book.id + 1 without the max
RECURSIVE load_initial_books_no_max(_, _, _)
load_initial_books_no_max(bks, nid, list) ==
    IF list = <<>> THEN [books |-> bks, next_id |-> nid]
    ELSE load_initial_books_no_max(DictSet(bks, Head(list)), Head(list).id + 1, Tail(list))

RECURSIVE load_initial_books(_, _, _)
load_initial_books(bks, nid, list) ==
    IF list = <<>> THEN [books |-> bks, next_id |-> nid]
    ELSE load_initial_books(DictSet(bks, Head(list)),
                            PyMax(nid, Head(list).id + 1),
                            Tail(list))

\* the id taken as count + 1 instead of the counter
create_book_count(bks, nid, book_data) ==
    LET book_id == Len(bks) + 1
        book == BookResponse(book_id, book_data.title, book_data.author, book_data.year,
                             IF TruthyList(book_data.tags) THEN book_data.tags[1] ELSE <<>>)
    IN  [books |-> DictSet(bks, book), next_id |-> nid + 1, ret |-> book]

\* the counter left as it was
create_book_no_inc(bks, nid, book_data) ==
    LET book_id == nid
        book == BookResponse(book_id, book_data.title, book_data.author, book_data.year,
                             IF TruthyList(book_data.tags) THEN book_data.tags[1] ELSE <<>>)
    IN  [books |-> DictSet(bks, book), next_id |-> nid, ret |-> book]

create_book(bks, nid, book_data) ==
    LET book_id == nid
        book == BookResponse(book_id, book_data.title, book_data.author, book_data.year,
                             IF TruthyList(book_data.tags) THEN book_data.tags[1] ELSE <<>>)
    IN  [books |-> DictSet(bks, book), next_id |-> nid + 1, ret |-> book]

get_book(bks, book_id) ==
    IF book_id \in Ids(bks) THEN Some(bks[Index(bks, book_id)]) ELSE None

\* True returned whether or not the id was stored
delete_book_always_true(bks, book_id) ==
    IF book_id \in Ids(bks)
    THEN [books |-> DictDel(bks, book_id), ret |-> TRUE]
    ELSE [books |-> bks, ret |-> TRUE]

\* True returned for a stored id without removing it
delete_book_no_removal(bks, book_id) ==
    IF book_id \in Ids(bks)
    THEN [books |-> bks, ret |-> TRUE]
    ELSE [books |-> bks, ret |-> FALSE]

delete_book(bks, book_id) ==
    IF book_id \in Ids(bks)
    THEN [books |-> DictDel(bks, book_id), ret |-> TRUE]
    ELSE [books |-> bks, ret |-> FALSE]

\* authors counted after normalisation, as the author filter compares them
get_stats_normalized(bks) ==
    [total_books |-> Len(bks),
     unique_authors |-> Cardinality({normalize_string(bks[i].author) : i \in 1..Len(bks)})]

get_stats(bks) ==
    [total_books |-> Len(bks),
     unique_authors |-> Cardinality({bks[i].author : i \in 1..Len(bks)})]

(***************************************************************************)
(* BookFilters: validated query parameters                                 *)
(***************************************************************************)
BookFilters(raw) ==
    [author |-> IF raw.author = None THEN None ELSE Some(strip(raw.author[1])),
     year |-> raw.year,
     search |-> IF raw.search = None THEN None ELSE Some(strip(raw.search[1])),
     sort_by |-> raw.sort_by,
     sort_order |-> raw.sort_order,
     page |-> raw.page,
     limit |-> raw.limit]

(***************************************************************************)
(* list.sort(key=..., reverse=...): a stable sort on the keys; with        *)
(* reverse=True the list is reversed, sorted stably and reversed again     *)
(***************************************************************************)
Reverse(s) == [i \in 1..Len(s) |-> s[Len(s) + 1 - i]]

\* the author key taken as stored, not normalised
SortKeyRaw(kind, x) == IF kind = "year" THEN x.year ELSE x.author

SortKey(kind, x) == IF kind = "year" THEN x.year ELSE normalize_string(x.author)

KeyLess(kind, a, b) == IF kind = "year" THEN a < b ELSE StrLess(a, b)

\* insertion that goes before equal keys
RECURSIVE InsertBeforeEqual(_, _, _)
InsertBeforeEqual(kind, s, x) ==
    IF s = <<>> THEN <<x>>
    ELSE IF ~KeyLess(kind, SortKey(kind, Head(s)), SortKey(kind, x)) THEN <<x>> \o s
    ELSE <<Head(s)>> \o InsertBeforeEqual(kind, Tail(s), x)

RECURSIVE InsertStable(_, _, _)
InsertStable(kind, s, x) ==
    IF s = <<>> THEN <<x>>
    ELSE IF KeyLess(kind, SortKey(kind, x), SortKey(kind, Head(s))) THEN <<x>> \o s
    ELSE <<Head(s)>> \o InsertStable(kind, Tail(s), x)

RECURSIVE StableSort(_, _)
StableSort(kind, s) ==
    IF s = <<>> THEN <<>>
    ELSE InsertStable(kind, StableSort(kind, SubSeq(s, 1, Len(s) - 1)), s[Len(s)])

\* reverse=True taken as reversing the ascending result
list_sort_reversed_after(s, kind, reverse) ==
    IF reverse THEN Reverse(StableSort(kind, s)) ELSE StableSort(kind, s)

\* reverse ignored
list_sort_noreverse(s, kind, reverse) == StableSort(kind, s)

list_sort(s, kind, reverse) ==
    IF reverse THEN Reverse(StableSort(kind, Reverse(s))) ELSE StableSort(kind, s)

(***************************************************************************)
(* PaginationService.paginate                                              *)
(***************************************************************************)
PyMin(a, b) == IF a <= b THEN a ELSE b

\* s[a:b] for 0 <= a <= b
Slice(s, a, b) == SubSeq(s, PyMin(a, Len(s)) + 1, PyMin(b, Len(s)))

\* has_next taken from the page being full
paginate_has_next_full_page(items, page, limit) ==
    LET total == Len(items)
        start_idx == (page - 1) * limit
        end_idx == start_idx + limit
    IN  [items |-> Slice(items, start_idx, end_idx),
         total |-> total,
         page |-> page,
         limit |-> limit,
         has_next |-> Len(Slice(items, start_idx, end_idx)) = limit,
         has_prev |-> page > 1]

\* has_next computed with <= instead of <
paginate_has_next_leq(items, page, limit) ==
    LET total == Len(items)
        start_idx == (page - 1) * limit
        end_idx == start_idx + limit
    IN  [items |-> Slice(items, start_idx, end_idx),
         total |-> total,
         page |-> page,
         limit |-> limit,
         has_next |-> (page * limit) <= total,
         has_prev |-> page > 1]

\* the slice end taken as inclusive, so each page stops one item early
paginate_short(items, page, limit) ==
    LET total == Len(items)
        start_idx == (page - 1) * limit
        end_idx == start_idx + limit - 1
    IN  [items |-> Slice(items, start_idx, end_idx),
         total |-> total,
         page |-> page,
         limit |-> limit,
         has_next |-> (page * limit) < total,
         has_prev |-> page > 1]

\* a page beyond the last one served as the last one
paginate_clamp_page(items, page, limit) ==
    LET total == Len(items)
        last == IF total = 0 THEN 1 ELSE (total + limit - 1) \div limit
        start_idx == (PyMin(page, last) - 1) * limit
        end_idx == start_idx + limit
    IN  [items |-> Slice(items, start_idx, end_idx),
         total |-> total,
         page |-> page,
         limit |-> limit,
         has_next |-> (page * limit) < total,
         has_prev |-> page > 1]

\* the page number taken as 0-based
paginate_zero_based(items, page, limit) ==
    LET total == Len(items)
        start_idx == page * limit
        end_idx == start_idx + limit
    IN  [items |-> Slice(items, start_idx, end_idx),
         total |-> total,
         page |-> page,
         limit |-> limit,
         has_next |-> (page * limit) < total,
         has_prev |-> page > 1]

paginate(items, page, limit) ==
    LET total == Len(items)
        start_idx == (page - 1) * limit
        end_idx == start_idx + limit
    IN  [items |-> Slice(items, start_idx, end_idx),
         total |-> total,
         page |-> page,
         limit |-> limit,
         has_next |-> (page * limit) < total,
         has_prev |-> page > 1]

(***************************************************************************)
(* InMemoryBookRepository.get_books: filter, sort, paginate                *)
(***************************************************************************)
filter_books(bks, filters) ==
    LET all == bks
        by_author ==
            IF TruthyStr(filters.author)
            THEN SelectSeq(all, LAMBDA book :
                     Contains(normalize_string(filters.author[1]), normalize_string(book.author)))
            ELSE all
        by_year ==
            IF TruthyInt(filters.year)
            THEN SelectSeq(by_author, LAMBDA book : book.year = filters.year[1])
            ELSE by_author
        by_search ==
            IF TruthyStr(filters.search)
            THEN SelectSeq(by_year, LAMBDA book :
                     Contains(normalize_string(filters.search[1]), normalize_string(book.title)))
            ELSE by_year
    IN  by_search

\* without sort_by, a desc order reverses the list
sort_books_desc_reverses(list, filters) ==
    IF filters.sort_by # None
    THEN LET reverse == (filters.sort_order = Some("desc"))
         IN  IF filters.sort_by = Some("year") THEN list_sort(list, "year", reverse)
             ELSE IF filters.sort_by = Some("author") THEN list_sort(list, "author", reverse)
             ELSE list
    ELSE IF filters.sort_order = Some("desc") THEN Reverse(list) ELSE list

sort_books(list, filters) ==
    IF filters.sort_by # None
    THEN LET reverse == (filters.sort_order = Some("desc"))
         IN  IF filters.sort_by = Some("year") THEN list_sort(list, "year", reverse)
             ELSE IF filters.sort_by = Some("author") THEN list_sort(list, "author", reverse)
             ELSE list
    ELSE list

get_books(bks, filters) ==
    paginate(sort_books(filter_books(bks, filters), filters), filters.page, filters.limit)

\* the sort done on the values of the dict itself
get_books_effect_in_place(bks, filters) ==
    [store |-> sort_books(bks, filters),
     list |-> sort_books(filter_books(bks, filters), filters)]

\* the dict and the local list `books` at line 119: line 90 copies the values of
\* the dict into a new list, and the filters and the sort act on that list
get_books_effect(bks, filters) ==
    [store |-> bks,
     list |-> sort_books(filter_books(bks, filters), filters)]

(***************************************************************************)
(* Exceptions: a class is known by its method resolution order; the        *)
(* outcome of a call is a returned value or a raised exception             *)
(***************************************************************************)
\* the classes an exception is an instance of
Mro(cls) ==
    CASE cls = "ValueError" -> {"ValueError", "Exception", "BaseException"}
      [] cls = "JSONDecodeError" ->
             {"JSONDecodeError", "ValueError", "Exception", "BaseException"}
      [] cls = "OSError" -> {"OSError", "Exception", "BaseException"}
      [] cls = "FileNotFoundError" ->
             {"FileNotFoundError", "OSError", "Exception", "BaseException"}
      [] cls = "UnsupportedOperation" ->
             {"UnsupportedOperation", "OSError", "ValueError", "Exception", "BaseException"}
      [] cls = "FileValueError" ->
             {"FileValueError", "FileNotFoundError", "OSError", "ValueError", "Exception",
              "BaseException"}
      [] cls = "AttributeValueError" ->
             {"AttributeValueError", "AttributeError", "ValueError", "Exception",
              "BaseException"}
      [] cls = "AttributeError" -> {"AttributeError", "Exception", "BaseException"}
      [] cls = "KeyError" -> {"KeyError", "LookupError", "Exception", "BaseException"}
      [] cls = "RuntimeError" -> {"RuntimeError", "Exception", "BaseException"}
      [] cls = "HTTPException" -> {"HTTPException", "Exception", "BaseException"}
      [] cls = "CancelledError" -> {"CancelledError", "BaseException"}
      [] cls = "KeyboardInterrupt" -> {"KeyboardInterrupt", "BaseException"}

isinstance(exc, cls) == cls \in Mro(exc)

Returned(value) ==
    [kind |-> "return", value |-> value, exc |-> "", status_code |-> 0,
     detail |-> <<>>, message |-> "", raised_by |-> ""]

\* an exception raised by the wrapped function
Raised(exc, message) ==
    [kind |-> "raise", value |-> None, exc |-> exc, status_code |-> 0,
     detail |-> <<>>, message |-> message, raised_by |-> "func"]

\* raise HTTPException(status_code=..., detail=...): a new exception object of
\* the function that raises it
HTTPException(status_code, detail, raised_by) ==
    [kind |-> "raise", value |-> None, exc |-> "HTTPException", status_code |-> status_code,
     detail |-> detail, message |-> "", raised_by |-> raised_by]

\* the except clauses with FileNotFoundError tried before ValueError
handle_repository_errors_file_first(operation_name, outcome) ==
    IF outcome.kind = "return" THEN outcome
    ELSE IF isinstance(outcome.exc, "FileNotFoundError")
    THEN HTTPException(404, <<"Resource not found for", operation_name>>, "wrapper")
    ELSE IF isinstance(outcome.exc, "ValueError")
    THEN HTTPException(400, <<"Invalid data for", operation_name, outcome.message>>, "wrapper")
    ELSE IF isinstance(outcome.exc, "AttributeError")
    THEN HTTPException(500, <<"Internal server error occurred during", operation_name>>, "wrapper")
    ELSE IF isinstance(outcome.exc, "Exception")
    THEN HTTPException(500, <<"An unexpected error occurred during", operation_name>>, "wrapper")
    ELSE outcome

\* the wrapper of handle_repository_errors applied to the outcome of func: the
\* first except clause whose class the exception is an instance of is taken, and
\* an exception no clause matches propagates
handle_repository_errors(operation_name, outcome) ==
    IF outcome.kind = "return" THEN outcome
    ELSE IF isinstance(outcome.exc, "ValueError")
    THEN HTTPException(400, <<"Invalid data for", operation_name, outcome.message>>, "wrapper")
    ELSE IF isinstance(outcome.exc, "FileNotFoundError")
    THEN HTTPException(404, <<"Resource not found for", operation_name>>, "wrapper")
    ELSE IF isinstance(outcome.exc, "AttributeError")
    THEN HTTPException(500, <<"Internal server error occurred during", operation_name>>, "wrapper")
    ELSE IF isinstance(outcome.exc, "Exception")
    THEN HTTPException(500, <<"An unexpected error occurred during", operation_name>>, "wrapper")
    ELSE outcome

(***************************************************************************)
(* The HTTP adapter: dependency, routes, and the response FastAPI makes of *)
(* a route's outcome                                                       *)
(***************************************************************************)
\* truthiness of an Optional[BookResponse]: a model instance is truthy
TruthyModel(o) == o # None

get_book_repository(state) ==
    IF "book_repository" \notin state
    THEN HTTPException(503, [text |-> "Book repository not initialized"], "dependency")
    ELSE Returned("book_repository")

route_create_book(bks, nid, book_data) ==
    LET r == create_book(bks, nid, book_data)
    IN  [books |-> r.books, next_id |-> r.next_id,
         outcome |-> handle_repository_errors("create_book", Returned(r.ret))]

route_get_book(bks, book_id) ==
    LET book == get_book(bks, book_id)
    IN  IF ~TruthyModel(book)
        THEN HTTPException(404, [text |-> "Book with ID not found", book_id |-> book_id],
                           "route")
        ELSE Returned(book[1])

\* the 404 raised when the delete succeeded
route_delete_book_inverted(bks, book_id) ==
    LET r == delete_book(bks, book_id)
    IN  [books |-> r.books,
         outcome |->
             IF r.ret
             THEN HTTPException(404, [text |-> "Book with ID not found",
                                      book_id |-> book_id], "route")
             ELSE Returned([text |-> "Book with ID has been deleted successfully",
                            book_id |-> book_id])]

route_delete_book(bks, book_id) ==
    LET r == delete_book(bks, book_id)
    IN  [books |-> r.books,
         outcome |->
             IF ~r.ret
             THEN HTTPException(404, [text |-> "Book with ID not found",
                                      book_id |-> book_id], "route")
             ELSE Returned([text |-> "Book with ID has been deleted successfully",
                            book_id |-> book_id])]

\* the response to a request: the route's status_code with the returned value,
\* or the status and detail of the HTTPException raised
Respond(status_code, outcome) ==
    IF outcome.kind = "return"
    THEN [status_code |-> status_code, body |-> outcome.value]
    ELSE [status_code |-> outcome.status_code, body |-> outcome.detail]

\* a record put in the repository when the loader raised
lifespan_load_fallback(outcome) ==
    IF outcome.kind = "return"
    THEN load_initial_books(<<>>, 1, outcome.value)
    ELSE load_initial_books(<<>>, 1, <<BookResponse(1, <<"A">>, <<"a">>, 1999, <<>>)>>)

\* lifespan, from the new repository to the end of the try statement: the
\* loader's list is loaded, an exception of the loader is logged and dropped
lifespan_load(outcome) ==
    IF outcome.kind = "return"
    THEN load_initial_books(<<>>, 1, outcome.value)
    ELSE [books |-> <<>>, next_id |-> 1]

(***************************************************************************)
(* Inputs                                                                  *)
(***************************************************************************)
B1 == [title |-> <<"A">>, author |-> <<"a">>, year |-> 1999, tags |-> None]

B2 == [title |-> <<"B", "a", "b">>, author |-> <<"B">>, year |-> 1999, tags |-> Some(<<>>)]

B3 == [title |-> <<"b", " ", "a">>, author |-> <<"b">>, year |-> 2000, tags |-> Some(<< <<"a">> >>)]

B4 == [title |-> <<" ", "A", "b", " ">>, author |-> <<" ", "A", "b">>, year |-> 2000, tags |-> None]

BookInputs == {B1, B2, B3, B4}

StoreInputs == {B1, B3}

LoadIds == 1..MaxLoadId

LoadRecords ==
    {BookResponse(i, B2.title, B2.author, B2.year, <<>>) : i \in LoadIds}

\* lists without repeated ids: every record of an id carries the same data, so a
\* repeated id loads as its first occurrence alone
LoadLists ==
    {l \in UNION {[1..n -> LoadRecords] : n \in 0..MaxLoadLen} :
        \A i, j \in 1..Len(l) : i # j => l[i].id # l[j].id}

\* ids to look up or delete: every id the store has held, and one it never has
IdInputs == seen \cup {next_id}

AuthorFilters ==
    {None, Some(<<" ">>), Some(<<"b">>), Some(<<" ", "B", " ">>),
     Some(<<"A", "b">>), Some(<<"b", "a">>)}

YearFilters == {None, Some(0), Some(-1), Some(2000)}

SearchFilters == {None, Some(<<"a", "b">>), Some(<<" ", "A", "B">>)}

PageInputs == {1, 2}

LimitInputs == {1, 2, DefaultLimit}

FilterInputs ==
    [author : AuthorFilters, year : YearFilters, search : SearchFilters,
     sort_by : {None, Some("year"), Some("author")},
     sort_order : {Some("asc"), Some("desc")},
     page : PageInputs,
     limit : LimitInputs]

PageItems == {"p", "q", "r"}

(***************************************************************************)
(* The repository under an arbitrary sequence of calls                     *)
(***************************************************************************)
Init ==
    /\ books = <<>>
    /\ next_id = 1
    /\ op = "init"
    /\ arg = None
    /\ ret = None
    /\ handed = <<>>
    /\ seen = {}
    /\ loads = 0
    /\ creates = 0
    /\ lateLoad = FALSE
    /\ loadedIds = {}
    /\ AuxIdle

LoadInitialBooks ==
    \E list \in LoadLists :
        LET r == load_initial_books(books, next_id, list)
        IN  /\ loads < MaxLoads
            /\ books' = r.books
            /\ next_id' = r.next_id
            /\ op' = "load_initial_books"
            /\ arg' = list
            /\ ret' = None
            /\ seen' = seen \cup Ids(r.books)
            /\ loads' = loads + 1
            /\ lateLoad' = (lateLoad \/ creates > 0 \/ loads > 0)
            /\ loadedIds' = IF loads = 0 THEN {list[i].id : i \in 1..Len(list)} ELSE loadedIds
            /\ UNCHANGED <<handed, creates>>
            /\ UNCHANGED aux

CreateBook ==
    \E raw \in StoreInputs :
        LET r == create_book(books, next_id, BookCreate(raw))
        IN  /\ creates < MaxCreates
            /\ books' = r.books
            /\ next_id' = r.next_id
            /\ op' = "create_book"
            /\ arg' = raw
            /\ ret' = r.ret
            /\ seen' = seen \cup {r.ret.id}
            /\ creates' = creates + 1
            /\ UNCHANGED <<handed, loads, lateLoad, loadedIds>>
            /\ UNCHANGED aux

DeleteBook ==
    \E id \in IdInputs :
        LET r == delete_book(books, id)
        IN  /\ books' = r.books
            /\ op' = "delete_book"
            /\ arg' = id
            /\ ret' = r.ret
            /\ UNCHANGED <<next_id, handed, seen, loads, creates, lateLoad, loadedIds>>
            /\ UNCHANGED aux

GetBook ==
    \E id \in IdInputs :
        /\ op' = "get_book"
        /\ arg' = id
        /\ ret' = get_book(books, id)
        /\ UNCHANGED <<books, next_id, handed, seen, loads, creates, lateLoad, loadedIds>>
        /\ UNCHANGED aux

GetStats ==
    /\ op' = "get_stats"
    /\ arg' = None
    /\ ret' = get_stats(books)
    /\ UNCHANGED <<books, next_id, handed, seen, loads, creates, lateLoad, loadedIds>>
    /\ UNCHANGED aux

Next == LoadInitialBooks \/ CreateBook \/ DeleteBook \/ GetBook \/ GetStats

Spec == Init /\ [][Next]_vars

(***************************************************************************)
(* Queries: a repository filled by create_book calls, then one get_books   *)
(***************************************************************************)
RECURSIVE Created(_)
Created(inputs) ==
    IF inputs = <<>> THEN [books |-> <<>>, next_id |-> 1]
    ELSE LET p == Created(SubSeq(inputs, 1, Len(inputs) - 1))
         IN  create_book(p.books, p.next_id, BookCreate(inputs[Len(inputs)]))

InitQuery ==
    \E inputs \in UNION {[1..n -> BookInputs] : n \in 0..MaxBooks} :
        /\ books = Created(inputs).books
        /\ next_id = Created(inputs).next_id
        /\ op = "init"
        /\ arg = None
        /\ ret = None
        /\ handed = <<>>
        /\ seen = Ids(Created(inputs).books)
        /\ loads = 0
        /\ creates = Len(inputs)
        /\ lateLoad = FALSE
        /\ loadedIds = {}
        /\ AuxIdle

GetBooksFrom(inputs) ==
    \E raw \in inputs :
        LET filters == BookFilters(raw)
            effect == get_books_effect(books, filters)
        IN  /\ op' = "get_books"
            /\ arg' = raw
            /\ handed' = effect.list
            /\ books' = effect.store
            /\ ret' = get_books(books, filters)
            /\ UNCHANGED <<next_id, seen, loads, creates, lateLoad, loadedIds>>
            /\ UNCHANGED aux

GetBooks == GetBooksFrom(FilterInputs)

NextQuery == op = "init" /\ GetBooks

SpecQuery == InitQuery /\ [][NextQuery]_vars

(***************************************************************************)
(* Deletions: a repository loaded once and filled by create_book calls,    *)
(* then any number of delete_book calls                                    *)
(***************************************************************************)
RECURSIVE Filled(_, _)
Filled(list, inputs) ==
    IF inputs = <<>> THEN load_initial_books(<<>>, 1, list)
    ELSE LET p == Filled(list, SubSeq(inputs, 1, Len(inputs) - 1))
         IN  create_book(p.books, p.next_id, BookCreate(inputs[Len(inputs)]))

InitDelete ==
    \E list \in LoadLists, inputs \in UNION {[1..n -> StoreInputs] : n \in 0..MaxCreates} :
        /\ books = Filled(list, inputs).books
        /\ next_id = Filled(list, inputs).next_id
        /\ op = "init"
        /\ arg = None
        /\ ret = None
        /\ handed = <<>>
        /\ seen = Ids(Filled(list, inputs).books)
        /\ loads = 1
        /\ creates = Len(inputs)
        /\ lateLoad = FALSE
        /\ loadedIds = {list[i].id : i \in 1..Len(list)}
        /\ AuxIdle

NextDelete == DeleteBook

SpecDelete == InitDelete /\ [][NextDelete]_vars

(***************************************************************************)
(* Reads: a repository loaded once and filled by create_book calls, then   *)
(* any number of get_books, get_book and get_stats calls                   *)
(***************************************************************************)
ReadFilters ==
    {f \in FilterInputs :
        f.year = None /\ f.search = None /\ f.page = 1 /\ f.limit = DefaultLimit}

GetBooksRead == GetBooksFrom(ReadFilters)

NextReads == GetBooksRead \/ GetBook \/ GetStats

SpecReads == InitDelete /\ [][NextReads]_vars

(***************************************************************************)
(* A repository never seeded: create_book and delete_book calls in any     *)
(* order, and get_books queries without sort_by                            *)
(***************************************************************************)
UnsortedFilters ==
    {f \in FilterInputs : f.sort_by = None /\ f.year = None /\ f.sort_order = Some("asc")}

InitUnseeded ==
    \E inputs \in UNION {[1..n -> StoreInputs] : n \in 0..MaxBooks} :
        /\ books = Created(inputs).books
        /\ next_id = Created(inputs).next_id
        /\ op = "init"
        /\ arg = None
        /\ ret = None
        /\ handed = <<>>
        /\ seen = Ids(Created(inputs).books)
        /\ loads = 0
        /\ creates = Len(inputs)
        /\ lateLoad = FALSE
        /\ loadedIds = {}
        /\ AuxIdle

GetBooksUnsorted == GetBooksFrom(UnsortedFilters)

NextUnseeded == CreateBook \/ DeleteBook \/ GetBooksUnsorted

SpecUnseeded == InitUnseeded /\ [][NextUnseeded]_vars

(***************************************************************************)
(* Pagination: a sequence of items, then one paginate                      *)
(***************************************************************************)
InitPage ==
    \E seq \in UNION {[1..n -> PageItems] : n \in 0..MaxSeqLen} :
        /\ handed = seq
        /\ books = <<>>
        /\ next_id = 1
        /\ op = "init"
        /\ arg = None
        /\ ret = None
        /\ seen = {}
        /\ loads = 0
        /\ creates = 0
        /\ lateLoad = FALSE
        /\ loadedIds = {}
        /\ AuxIdle

Paginate ==
    \E page \in 1..MaxPage, limit \in 1..MaxLimit :
        /\ op' = "paginate"
        /\ arg' = [page |-> page, limit |-> limit]
        /\ ret' = paginate(handed, page, limit)
        /\ UNCHANGED <<books, next_id, handed, seen, loads, creates, lateLoad, loadedIds>>
        /\ UNCHANGED aux

NextPage == op = "init" /\ Paginate

SpecPage == InitPage /\ [][NextPage]_vars

(***************************************************************************)
(* A client reading a sequence page by page, from page 1 to the last page  *)
(***************************************************************************)
LastPage(total, limit) == (total + limit - 1) \div limit

InitWalk ==
    \E seq \in UNION {[1..n -> PageItems] : n \in 0..MaxSeqLen}, limit \in 1..MaxLimit :
        /\ handed = seq
        /\ arg = [page |-> 0, limit |-> limit]
        /\ books = <<>>
        /\ next_id = 1
        /\ op = "init"
        /\ ret = None
        /\ seen = {}
        /\ loads = 0
        /\ creates = 0
        /\ lateLoad = FALSE
        /\ loadedIds = {}
        /\ AuxIdle

FetchPage ==
    /\ cursor < LastPage(Len(handed), arg.limit)
    /\ cursor' = cursor + 1
    /\ op' = "paginate"
    /\ arg' = [page |-> cursor + 1, limit |-> arg.limit]
    /\ ret' = paginate(handed, cursor + 1, arg.limit)
    /\ acc' = acc \o paginate(handed, cursor + 1, arg.limit).items
    /\ UNCHANGED <<books, next_id, handed, seen, loads, creates, lateLoad, loadedIds, pc, local>>
    /\ UNCHANGED app

NextWalk == FetchPage

SpecWalk == InitWalk /\ [][NextWalk]_vars

(***************************************************************************)
(* Two create_book calls in parallel threads, interleaved statement by     *)
(* statement: read _next_id, increment _next_id, build and insert the book *)
(***************************************************************************)
Threads == {1, 2}

InitThreads ==
    \E inputs \in UNION {[1..n -> StoreInputs] : n \in 0..MaxCreates} :
      \E datas \in [Threads -> StoreInputs] :
        /\ books = Created(inputs).books
        /\ next_id = Created(inputs).next_id
        /\ op = "init"
        /\ arg = None
        /\ ret = None
        /\ handed = <<>>
        /\ seen = Ids(Created(inputs).books)
        /\ loads = 0
        /\ creates = Len(inputs)
        /\ lateLoad = FALSE
        /\ loadedIds = {}
        /\ acc = <<>>
        /\ cursor = 0
        /\ pc = [t \in Threads |-> "read"]
        /\ local = [t \in Threads |->
                       [book_data |-> BookCreate(datas[t]), book_id |-> 0, book |-> None]]
        /\ AppIdle

\* book_id = self._next_id
ThreadRead(t) ==
    /\ pc[t] = "read"
    /\ local' = [local EXCEPT ![t].book_id = next_id]
    /\ pc' = [pc EXCEPT ![t] = "inc"]
    /\ UNCHANGED <<books, next_id, op, arg, ret, handed, seen, loads, creates, lateLoad,
                   loadedIds, acc, cursor>>
    /\ UNCHANGED app

\* self._next_id += 1
ThreadInc(t) ==
    /\ pc[t] = "inc"
    /\ next_id' = next_id + 1
    /\ pc' = [pc EXCEPT ![t] = "insert"]
    /\ UNCHANGED <<books, op, arg, ret, handed, seen, loads, creates, lateLoad,
                   loadedIds, acc, cursor, local>>
    /\ UNCHANGED app

\* book = BookResponse(...); self._books[book_id] = book; return book
ThreadInsert(t) ==
    LET d == local[t].book_data
        book == BookResponse(local[t].book_id, d.title, d.author, d.year,
                             IF TruthyList(d.tags) THEN d.tags[1] ELSE <<>>)
    IN  /\ pc[t] = "insert"
        /\ books' = DictSet(books, book)
        /\ local' = [local EXCEPT ![t].book = Some(book)]
        /\ pc' = [pc EXCEPT ![t] = "done"]
        /\ seen' = seen \cup {book.id}
        /\ UNCHANGED <<next_id, op, arg, ret, handed, loads, creates, lateLoad,
                       loadedIds, acc, cursor>>
        /\ UNCHANGED app

NextThreads == \E t \in Threads : ThreadRead(t) \/ ThreadInc(t) \/ ThreadInsert(t)

SpecThreads == InitThreads /\ [][NextThreads]_vars

(***************************************************************************)
(* A function wrapped by handle_repository_errors, called once             *)
(***************************************************************************)
ExcClasses ==
    {"ValueError", "JSONDecodeError", "OSError", "FileNotFoundError", "UnsupportedOperation",
     "FileValueError", "AttributeValueError", "AttributeError", "KeyError", "RuntimeError",
     "CancelledError", "KeyboardInterrupt"}

FuncNames == {"create_book", "get_books", "get_stats"}

Messages == {"", "Invalid value"}

ReturnValues == {None, Some("success"), Some("")}

FuncOutcomes ==
    {Returned(v) : v \in ReturnValues}
    \cup {Raised(c, m) : c \in ExcClasses, m \in Messages}
    \cup {HTTPException(404, <<"Book not found">>, "func"),
          HTTPException(500, <<"An unexpected error occurred during", "get_stats">>, "func")}

InitWrap ==
    \E name \in FuncNames, outcome \in FuncOutcomes :
        /\ arg = [operation_name |-> name, outcome |-> outcome]
        /\ op = "init"
        /\ ret = None
        /\ books = <<>>
        /\ next_id = 1
        /\ handed = <<>>
        /\ seen = {}
        /\ loads = 0
        /\ creates = 0
        /\ lateLoad = FALSE
        /\ loadedIds = {}
        /\ AuxIdle

Wrapper ==
    /\ op = "init"
    /\ op' = "wrapper"
    /\ ret' = handle_repository_errors(arg.operation_name, arg.outcome)
    /\ UNCHANGED <<books, next_id, arg, handed, seen, loads, creates, lateLoad, loadedIds>>
    /\ UNCHANGED aux

NextWrap == Wrapper

SpecWrap == InitWrap /\ [][NextWrap]_vars

(***************************************************************************)
(* The application: startup (lifespan), then requests to POST /books/,     *)
(* GET /books/{book_id} and DELETE /books/{book_id}                        *)
(***************************************************************************)
\* DataLoader._assign_ids numbers the loaded books 1, 2, ...
LoaderLists == {l \in LoadLists : \A i \in 1..Len(l) : l[i].id = i}

LoaderOutcomes ==
    {Returned(l) : l \in LoaderLists}
    \cup {Raised(c, "") : c \in {"FileNotFoundError", "JSONDecodeError", "ValueError", "OSError"}}

InitApp ==
    /\ books = <<>>
    /\ next_id = 1
    /\ op = "init"
    /\ arg = None
    /\ ret = None
    /\ handed = <<>>
    /\ seen = {}
    /\ loads = 0
    /\ creates = 0
    /\ lateLoad = FALSE
    /\ loadedIds = {}
    /\ AuxIdle

\* book_repository = InMemoryBookRepository(); try: ... except ...
LifespanLoad ==
    \E outcome \in LoaderOutcomes :
        LET r == lifespan_load(outcome)
            called == outcome.kind = "return"
        IN  /\ lifespan = "start"
            /\ lifespan' = "publish"
            /\ books' = r.books
            /\ next_id' = r.next_id
            /\ op' = "lifespan_load"
            /\ arg' = outcome
            /\ ret' = None
            /\ seen' = Ids(r.books)
            /\ loads' = IF called THEN loads + 1 ELSE loads
            /\ lateLoad' = (lateLoad \/ (called /\ (creates > 0 \/ loads > 0)))
            /\ loadedIds' = Ids(r.books)
            /\ UNCHANGED <<handed, creates, acc, cursor, pc, local, app_state>>

\* app.state.book_repository = book_repository; yield
LifespanPublish ==
    /\ lifespan = "publish"
    /\ lifespan' = "yield"
    /\ app_state' = app_state \cup {"book_repository"}
    /\ op' = "lifespan_publish"
    /\ arg' = None
    /\ ret' = None
    /\ UNCHANGED <<books, next_id, handed, seen, loads, creates, lateLoad, loadedIds,
                   acc, cursor, pc, local>>

HttpCreateBook ==
    \E raw \in StoreInputs :
        LET dep == get_book_repository(app_state)
            r == route_create_book(books, next_id, BookCreate(raw))
        IN  /\ lifespan # "publish"
            /\ creates < MaxCreates
            /\ op' = "POST /books/"
            /\ arg' = raw
            /\ IF dep.kind = "raise"
               THEN /\ ret' = Respond(201, dep)
                    /\ UNCHANGED <<books, next_id, seen, creates>>
               ELSE /\ ret' = Respond(201, r.outcome)
                    /\ books' = r.books
                    /\ next_id' = r.next_id
                    /\ seen' = seen \cup Ids(r.books)
                    /\ creates' = creates + 1
            /\ UNCHANGED <<handed, loads, lateLoad, loadedIds>>
            /\ UNCHANGED aux

HttpGetBook ==
    \E book_id \in IdInputs :
        LET dep == get_book_repository(app_state)
        IN  /\ lifespan # "publish"
            /\ op' = "GET /books/{book_id}"
            /\ arg' = [book_id |-> book_id]
            /\ ret' = IF dep.kind = "raise" THEN Respond(200, dep)
                      ELSE Respond(200, route_get_book(books, book_id))
            /\ UNCHANGED <<books, next_id, handed, seen, loads, creates, lateLoad, loadedIds>>
            /\ UNCHANGED aux

HttpDeleteBook ==
    \E book_id \in IdInputs :
        LET dep == get_book_repository(app_state)
            r == route_delete_book(books, book_id)
        IN  /\ lifespan # "publish"
            /\ op' = "DELETE /books/{book_id}"
            /\ arg' = [book_id |-> book_id]
            /\ IF dep.kind = "raise"
               THEN /\ ret' = Respond(200, dep)
                    /\ UNCHANGED books
               ELSE /\ ret' = Respond(200, r.outcome)
                    /\ books' = r.books
            /\ UNCHANGED <<next_id, handed, seen, loads, creates, lateLoad, loadedIds>>
            /\ UNCHANGED aux

NextApp == LifespanLoad \/ LifespanPublish \/ HttpCreateBook \/ HttpGetBook \/ HttpDeleteBook

SpecApp == InitApp /\ [][NextApp]_vars

\* the server runs the lifespan coroutine to its yield
SpecAppLive == SpecApp /\ WF_vars(LifespanLoad) /\ WF_vars(LifespanPublish)

(***************************************************************************)
(* Concurrent requests as asyncio tasks on one event loop: a task gives up *)
(* control only at an await that suspends, and the repository coroutines   *)
(* contain none, so a task runs its repository call from start to end      *)
(***************************************************************************)
Tasks == {1, 2, 3}

Requests ==
    {[method |-> "create_book", book_data |-> BookCreate(d), book_id |-> 0] : d \in StoreInputs}
    \cup {[method |-> "delete_book", book_data |-> None, book_id |-> i] : i \in 1..MaxBooks}
    \cup {[method |-> "get_book", book_data |-> None, book_id |-> i] : i \in 1..MaxCreates}

\* the body of the coroutine of a request, from its first statement to its return
run_request(bks, nid, request) ==
    IF request.method = "create_book"
    THEN LET r == create_book(bks, nid, request.book_data)
         IN  [books |-> r.books, next_id |-> r.next_id, result |-> Some(r.ret)]
    ELSE IF request.method = "delete_book"
    THEN LET r == delete_book(bks, request.book_id)
         IN  [books |-> r.books, next_id |-> nid, result |-> Some(r.ret)]
    ELSE [books |-> bks, next_id |-> nid, result |-> Some(get_book(bks, request.book_id))]

InitAsync ==
    \E inputs \in UNION {[1..n -> StoreInputs] : n \in 0..MaxCreates} :
      \E requests \in [Tasks -> Requests] :
        /\ books = Created(inputs).books
        /\ next_id = Created(inputs).next_id
        /\ op = "init"
        /\ arg = None
        /\ ret = None
        /\ handed = [books |-> Created(inputs).books, next_id |-> Created(inputs).next_id]
        /\ seen = Ids(Created(inputs).books)
        /\ loads = 0
        /\ creates = Len(inputs)
        /\ lateLoad = FALSE
        /\ loadedIds = {}
        /\ acc = <<>>
        /\ cursor = 0
        /\ pc = [t \in Tasks |-> "pending"]
        /\ local = [t \in Tasks |-> [request |-> requests[t], result |-> None]]
        /\ AppIdle

\* the event loop resumes task t, which runs until it is done
TaskRun(t) ==
    LET r == run_request(books, next_id, local[t].request)
    IN  /\ pc[t] = "pending"
        /\ pc' = [pc EXCEPT ![t] = "done"]
        /\ books' = r.books
        /\ next_id' = r.next_id
        /\ local' = [local EXCEPT ![t].result = r.result]
        /\ acc' = Append(acc, t)
        /\ op' = local[t].request.method
        /\ seen' = seen \cup Ids(r.books)
        /\ UNCHANGED <<arg, ret, handed, loads, creates, lateLoad, loadedIds, cursor>>
        /\ UNCHANGED app

NextAsync == \E t \in Tasks : TaskRun(t)

SpecAsync == InitAsync /\ [][NextAsync]_vars

(***************************************************************************)
(* A client that reads page 1 and then follows has_next                    *)
(***************************************************************************)
FollowNext ==
    /\ IF cursor = 0 THEN TRUE ELSE ret.has_next
    /\ cursor < MaxPage
    /\ cursor' = cursor + 1
    /\ op' = "paginate"
    /\ arg' = [page |-> cursor + 1, limit |-> arg.limit]
    /\ ret' = paginate(handed, cursor + 1, arg.limit)
    /\ acc' = acc \o paginate(handed, cursor + 1, arg.limit).items
    /\ UNCHANGED <<books, next_id, handed, seen, loads, creates, lateLoad, loadedIds, pc, local>>
    /\ UNCHANGED app

NextFollow == FollowNext

SpecFollow == InitWalk /\ [][NextFollow]_vars

(***************************************************************************)
(* Vocabulary of the properties, defined apart from the model's operators  *)
(***************************************************************************)
SetMax(S) == IF S = {} THEN 0 ELSE CHOOSE m \in S : \A x \in S : x <= m

NonSpace(s) == {i \in 1..Len(s) : s[i] # " "}

Trim(s) ==
    IF NonSpace(s) = {} THEN <<>>
    ELSE SubSeq(s, CHOOSE i \in NonSpace(s) : \A j \in NonSpace(s) : i <= j,
                   CHOOSE i \in NonSpace(s) : \A j \in NonSpace(s) : j <= i)

Norm(s) == LET t == Trim(s) IN [i \in 1..Len(t) |-> LowerChar[t[i]]]

NormOpt(o) == IF o = None THEN <<>> ELSE Norm(o[1])

IsSubstring(n, h) == \E i \in 1..(Len(h) + 1) : \E j \in (i - 1)..Len(h) : SubSeq(h, i, j) = n

\* a <= b in lexicographic code point order
LexLeq(a, b) ==
    \/ Len(a) <= Len(b) /\ \A i \in 1..Len(a) : a[i] = b[i]
    \/ \E k \in 1..PyMin(Len(a), Len(b)) :
           /\ \A i \in 1..(k - 1) : a[i] = b[i]
           /\ Ord[a[k]] < Ord[b[k]]

Matches(f, r) ==
    /\ f.author # None => IsSubstring(Norm(f.author[1]), Norm(r.author))
    /\ f.year # None => r.year = f.year[1]
    /\ f.search # None => IsSubstring(Norm(f.search[1]), Norm(r.title))

Pos(bks, id) == CHOOSE i \in 1..Len(bks) : bks[i].id = id

KeyBy(f, r) == IF f.sort_by = Some("year") THEN <<r.year>> ELSE Norm(r.author)

KeyLeq(f, a, b) == IF f.sort_by = Some("year") THEN a[1] <= b[1] ELSE LexLeq(a, b)

Keys(f, s) == [i \in 1..Len(s) |-> KeyBy(f, s[i])]

Mirror(s) == [i \in 1..Len(s) |-> s[Len(s) - i + 1]]

HasTies(f, s) == \E i, j \in 1..Len(s) : i < j /\ KeyBy(f, s[i]) = KeyBy(f, s[j])

Ascending(f) == [arg EXCEPT !.sort_order = Some("asc")]

AscOrder == sort_books(filter_books(books, BookFilters(Ascending(arg))), BookFilters(Ascending(arg)))

Queried == op = "get_books"

Sorted == Queried /\ arg.sort_by # None

(***************************************************************************)
(* Properties                                                              *)
(***************************************************************************)

\* C1: when the store was never seeded, or seeded by one load before the first
\* create, every id create_book returns is strictly greater than every id that
\* was present in or assigned by the store before the call (no id is reused).
C1_IdNeverReused ==
    [][(op' = "create_book" /\ ~lateLoad') => \A i \in seen : ret'.id > i]_vars

\* C1 witness: a create after a delete freed an id of a seeded store.
C1_Witness ==
    /\ op = "create_book"
    /\ ~lateLoad
    /\ loads = 1
    /\ loadedIds # {}
    /\ creates >= 2
    /\ seen \ Ids(books) # {}

\* C2: after one load of records with positive ids L (or none), the k-th
\* create_book returns max(L) + k, or k when L is empty, whatever deletes happen.
C2_KthCreateId ==
    (op = "create_book" /\ ~lateLoad /\ \A i \in loadedIds : i >= 1)
        => ret.id = SetMax(loadedIds) + creates

\* C2 witness: the second create after a load of two ids, with a delete between.
C2_Witness ==
    /\ op = "create_book"
    /\ ~lateLoad
    /\ Cardinality(loadedIds) = 2
    /\ \A i \in loadedIds : i >= 1
    /\ creates = 2
    /\ Len(books) < 4
    /\ ret.id = SetMax(loadedIds) + 2

\* C3: get_books returns total = the number of stored records satisfying every
\* supplied sub-filter, and every returned item satisfies every supplied sub-filter.
C3_FilterConjunction ==
    Queried =>
        /\ ret.total = Cardinality({i \in 1..Len(books) : Matches(arg, books[i])})
        /\ \A k \in 1..Len(ret.items) : Matches(arg, ret.items[k])

\* C4: whenever a year value is supplied (0 and negative values included),
\* get_books returns only records of exactly that year, total counts them, and a
\* year matching no record yields total 0 and no items.
C4_YearEquality ==
    (Queried /\ arg.year # None) =>
        /\ \A k \in 1..Len(ret.items) : ret.items[k].year = arg.year[1]
        /\ (arg.author = None /\ arg.search = None) =>
               ret.total = Cardinality({i \in 1..Len(books) : books[i].year = arg.year[1]})
        /\ (\A i \in 1..Len(books) : books[i].year # arg.year[1]) =>
               (ret.total = 0 /\ ret.items = <<>>)

\* C5: author filter and title search are case- and surrounding-whitespace-
\* insensitive substring tests: filter values with the same trim+lowercase
\* normalisation give identical results, and a record matches iff the normalised
\* value is a substring of its normalised author (title).
C5_CaseInsensitiveSubstring ==
    Queried =>
        /\ \A a \in AuthorFilters :
               NormOpt(a) = NormOpt(arg.author) =>
                   get_books(books, BookFilters([arg EXCEPT !.author = a])) = ret
        /\ \A t \in SearchFilters :
               NormOpt(t) = NormOpt(arg.search) =>
                   get_books(books, BookFilters([arg EXCEPT !.search = t])) = ret
        /\ (arg.year = None /\ arg.search = None) =>
               {handed[k] : k \in 1..Len(handed)} =
                   {books[i] : i \in {n \in 1..Len(books) :
                        IsSubstring(NormOpt(arg.author), Norm(books[n].author))}}
        /\ (arg.year = None /\ arg.author = None) =>
               {handed[k] : k \in 1..Len(handed)} =
                   {books[i] : i \in {n \in 1..Len(books) :
                        IsSubstring(NormOpt(arg.search), Norm(books[n].title))}}

\* C5 witness: an author filter in other case and with surrounding blanks selects
\* some but not all records, one of them by a proper substring.
C5_Witness ==
    /\ Queried
    /\ arg.author = Some(<<" ", "B", " ">>)
    /\ arg.year = None
    /\ arg.search = None
    /\ Len(handed) = 2
    /\ Len(books) = 3
    /\ \E k \in 1..Len(handed) : handed[k].author = <<"A", "b">>

\* C6 as stated: the desc sequence is the exact reverse of the asc sequence,
\* records with equal keys included.
C6_DescIsReverseOfAsc ==
    (Sorted /\ arg.sort_order = Some("desc")) => handed = Mirror(AscOrder)

\* C6 amended: the desc sequence holds the same records as the asc sequence, its
\* keys are the asc keys reversed, and records with equal keys stand in the same
\* relative order in both; it is the exact reverse when no two keys are equal.
C6_DescReversesKeys ==
    (Sorted /\ arg.sort_order = Some("desc")) =>
        /\ Len(handed) = Len(AscOrder)
        /\ Ids(handed) = Ids(AscOrder)
        /\ Keys(arg, handed) = Mirror(Keys(arg, AscOrder))
        /\ \A i, j \in 1..Len(handed) :
               (i < j /\ KeyBy(arg, handed[i]) = KeyBy(arg, handed[j]))
                   => Pos(AscOrder, handed[i].id) < Pos(AscOrder, handed[j].id)
        /\ ~HasTies(arg, handed) => handed = Mirror(AscOrder)

\* C6 witness: a desc query over three records, two of them with equal keys.
C6_Witness ==
    /\ Sorted
    /\ arg.sort_order = Some("desc")
    /\ Len(handed) = 3
    /\ HasTies(arg, handed)
    /\ KeyBy(arg, handed[1]) # KeyBy(arg, handed[3])

\* C7: sorting is stable: for sort_by year or author, asc or desc, two returned
\* records with equal sort keys stand in the order they have in the store.
C7_StableSort ==
    Sorted =>
        \A i, j \in 1..Len(handed) :
            (i < j /\ KeyBy(arg, handed[i]) = KeyBy(arg, handed[j]))
                => Pos(books, handed[i].id) < Pos(books, handed[j].id)

\* C7 witness: a sort that moved records and kept two with equal keys.
C7_Witness ==
    /\ Sorted
    /\ Len(handed) = 3
    /\ HasTies(arg, handed)
    /\ handed # filter_books(books, BookFilters(arg))

\* C8: the sequence handed to the paginator is a permutation of the filtered
\* records, ordered by year (sort_by=year) or by the normalised author under
\* lexicographic comparison (sort_by=author): non-decreasing for asc,
\* non-increasing for desc.
C8_SortedPermutation ==
    Sorted =>
        LET filtered == filter_books(books, BookFilters(arg))
        IN  /\ Len(handed) = Len(filtered)
            /\ {handed[k] : k \in 1..Len(handed)} = {filtered[k] : k \in 1..Len(filtered)}
            /\ \A i \in 1..(Len(handed) - 1) :
                   IF arg.sort_order = Some("desc")
                   THEN KeyLeq(arg, KeyBy(arg, handed[i + 1]), KeyBy(arg, handed[i]))
                   ELSE KeyLeq(arg, KeyBy(arg, handed[i]), KeyBy(arg, handed[i + 1]))

\* C8 witness: an author sort of three records with three different keys, one of
\* them stored in upper case.
C8_Witness ==
    /\ Sorted
    /\ arg.sort_by = Some("author")
    /\ Len(handed) = 3
    /\ ~HasTies(arg, handed)
    /\ \E k \in 1..3 : handed[k].author # Norm(handed[k].author)

\* C9 as stated: for sort_by=author the author values of the returned items,
\* compared as stored (case-sensitive), are ascending for asc, descending for desc.
C9_RawAuthorOrder ==
    (Sorted /\ arg.sort_by = Some("author")) =>
        \A i \in 1..(Len(ret.items) - 1) :
            IF arg.sort_order = Some("desc")
            THEN LexLeq(ret.items[i + 1].author, ret.items[i].author)
            ELSE LexLeq(ret.items[i].author, ret.items[i + 1].author)

\* C9 amended: for sort_by=author the normalised (trim+lowercase) author values
\* of the returned items are ascending for asc and descending for desc; the values
\* as stored are so ordered when every returned author is its own normalisation.
C9_NormalizedAuthorOrder ==
    (Sorted /\ arg.sort_by = Some("author")) =>
        /\ \A i \in 1..(Len(ret.items) - 1) :
               IF arg.sort_order = Some("desc")
               THEN LexLeq(Norm(ret.items[i + 1].author), Norm(ret.items[i].author))
               ELSE LexLeq(Norm(ret.items[i].author), Norm(ret.items[i + 1].author))
        /\ (\A k \in 1..Len(ret.items) : ret.items[k].author = Norm(ret.items[k].author)) =>
               \A i \in 1..(Len(ret.items) - 1) :
                   IF arg.sort_order = Some("desc")
                   THEN LexLeq(ret.items[i + 1].author, ret.items[i].author)
                   ELSE LexLeq(ret.items[i].author, ret.items[i + 1].author)

\* C9 witness: a desc author sort returning an upper-case author after a
\* lower-case one that is smaller once normalised.
C9_Witness ==
    /\ Sorted
    /\ arg.sort_by = Some("author")
    /\ arg.sort_order = Some("desc")
    /\ Len(ret.items) >= 2
    /\ ret.items[1].author = <<"B">>
    /\ ret.items[2].author = <<"a">>

\* C10: paginate returns total = len(seq), page and limit unchanged, and items =
\* the contiguous slice of seq from (page-1)*limit up to min(page*limit, total),
\* in order; so len(items) = min(limit, max(0, total - (page-1)*limit)) <= limit.
C10_PaginateSlice ==
    op = "paginate" =>
        LET start == (arg.page - 1) * arg.limit
            rest == IF Len(handed) - start > 0 THEN Len(handed) - start ELSE 0
        IN  /\ ret.total = Len(handed)
            /\ ret.page = arg.page
            /\ ret.limit = arg.limit
            /\ Len(ret.items) = PyMin(arg.limit, rest)
            /\ Len(ret.items) <= arg.limit
            /\ \A k \in 1..Len(ret.items) : ret.items[k] = handed[start + k]

\* C10 witness: a last page that is neither the first nor full.
C10_Witness ==
    /\ op = "paginate"
    /\ arg.page >= 2
    /\ Len(ret.items) >= 1
    /\ Len(ret.items) < arg.limit
    /\ ret.items[1] # handed[1]

\* C11: paginate sets has_next exactly when page*limit < total, i.e. when some
\* item lies beyond this page, and has_prev exactly when page > 1.
C11_PageFlags ==
    op = "paginate" =>
        /\ ret.has_next <=> (\E i \in 1..Len(handed) : i > arg.page * arg.limit)
        /\ ret.has_next <=> (arg.page * arg.limit < Len(handed))
        /\ ret.has_prev <=> (arg.page > 1)
        /\ (handed = <<>> /\ arg.page = 1) => (~ret.has_next /\ ~ret.has_prev)

\* C11 witness: a page far beyond the last one, whose preceding page is empty
\* too, still has has_prev.
C11_Witness ==
    /\ op = "paginate"
    /\ cursor = 0
    /\ handed # <<>>
    /\ (arg.page - 2) * arg.limit >= Len(handed)
    /\ ret.has_prev
    /\ ~ret.has_next
    /\ ret.items = <<>>

\* C12: the items of pages 1..ceil(total/limit), concatenated in page order, are
\* the input sequence: every element once, none on two pages.
C12_PagesCoverSequence ==
    /\ Len(acc) <= Len(handed)
    /\ acc = SubSeq(handed, 1, Len(acc))
    /\ (op # "init" /\ cursor = LastPage(Len(handed), arg.limit)) => acc = handed
    /\ (op = "init" /\ handed = <<>>) => acc = handed

\* C12 witness: a walk of three or more pages that ended on a partly filled page.
C12_Witness ==
    /\ op = "paginate"
    /\ cursor >= 3
    /\ cursor = LastPage(Len(handed), arg.limit)
    /\ Len(ret.items) < arg.limit
    /\ acc = handed

\* C13: every page number greater than ceil(total/limit) is accepted and yields
\* items = [], has_next = false and total = the length of the whole sequence.
C13_BeyondLastPage ==
    (op = "paginate" /\ arg.page > LastPage(Len(handed), arg.limit)) =>
        /\ ret.items = <<>>
        /\ ~ret.has_next
        /\ ret.total = Len(handed)

\* C13 witness: the page right after a full last page of a non-empty sequence.
C13_Witness ==
    /\ op = "paginate"
    /\ cursor = 0
    /\ handed # <<>>
    /\ arg.page = LastPage(Len(handed), arg.limit) + 1
    /\ Len(handed) = (arg.page - 1) * arg.limit
    /\ ret.items = <<>>

NoFilter ==
    [author |-> None, year |-> None, search |-> None, sort_by |-> None,
     sort_order |-> Some("asc"), page |-> 1, limit |-> DefaultLimit]

QueryProbes ==
    {f \in FilterInputs :
        f.year = None /\ f.search = None /\ f.page = 1 /\ f.limit = DefaultLimit}

\* the queries that select a given record: unfiltered, by its author, by its
\* year, by its title as search text, the last one sorted by title descending
DeleteProbes(b) ==
    { NoFilter,
      [NoFilter EXCEPT !.author = Some(b.author)],
      [NoFilter EXCEPT !.year = Some(b.year)],
      [NoFilter EXCEPT !.search = Some(b.title), !.sort_by = Some("title"),
                       !.sort_order = Some("desc")] }

Authors(bks) == {bks[i].author : i \in 1..Len(bks)}

\* C15: get_stats returns total_books = the number of stored records and
\* unique_authors = the number of distinct author strings under exact,
\* case-sensitive equality; so unique_authors <= total_books, and it is 0 iff
\* the store is empty.
C15_StatsCounts ==
    op = "get_stats" =>
        /\ ret.total_books = Cardinality(Ids(books))
        /\ ret.unique_authors =
               Cardinality({i \in 1..Len(books) :
                               \A j \in 1..(i - 1) : books[j].author # books[i].author})
        /\ ret.unique_authors <= ret.total_books
        /\ (ret.unique_authors = 0) <=> (books = <<>>)

\* C15 witness: three books, two of whose authors differ in letter case only,
\* counted as two authors.
C15_Witness ==
    /\ op = "get_stats"
    /\ ret.total_books = 3
    /\ ret.unique_authors = 2
    /\ Authors(books) = {<<"B">>, <<"b">>}

\* C16: a successful delete_book lowers total_books by exactly 1, and lowers
\* unique_authors by exactly 1 if no remaining record has the deleted record's
\* author string, leaving it unchanged otherwise.
C16_DeleteLowersStats ==
    [][(op' = "delete_book" /\ ret' = TRUE) =>
          LET gone == books[Pos(books, arg')].author
          IN  /\ get_stats(books').total_books = get_stats(books).total_books - 1
              /\ get_stats(books').unique_authors =
                     IF gone \in Authors(books')
                     THEN get_stats(books).unique_authors
                     ELSE get_stats(books).unique_authors - 1]_vars

\* C16 witness: a delete that left two books of one author behind.
C16_Witness ==
    /\ op = "delete_book"
    /\ ret = TRUE
    /\ Len(books) = 2
    /\ Cardinality(Authors(books)) = 1
    /\ arg \notin Ids(books)

\* C17: get_book on an id that is not stored returns None and delete_book on it
\* returns False, the records and next_id staying as they are; so a second
\* delete_book of an id returns False.
C17_UnknownIdIsAbsent ==
    [][/\ (op' = "get_book" /\ arg' \notin Ids(books)) =>
              (ret' = None /\ books' = books /\ next_id' = next_id)
       /\ (op' = "delete_book" /\ arg' \notin Ids(books)) =>
              (ret' = FALSE /\ books' = books /\ next_id' = next_id)
       /\ (op = "delete_book" /\ ret = TRUE /\ op' = "delete_book" /\ arg' = arg) =>
              ret' = FALSE]_vars

\* C17 witness: a delete_book of an id that was stored once and deleted before.
C17_Witness ==
    /\ op = "delete_book"
    /\ ret = FALSE
    /\ arg \in seen
    /\ arg \notin Ids(books)
    /\ books # <<>>

\* C18: delete_book on a stored id returns True and removes exactly that record:
\* get_book of it is None, no get_books result holds it, the unfiltered total is
\* one less, every other record and their order are unchanged, and so is next_id.
C18_DeleteRemovesOne ==
    [][(op' = "delete_book" /\ arg' \in Ids(books)) =>
          /\ ret' = TRUE
          /\ get_book(books', arg') = None
          /\ \A f \in QueryProbes \cup DeleteProbes(get_book(books, arg')[1]) :
                 arg' \notin Ids(get_books(books', BookFilters(f)).items)
          /\ get_books(books', BookFilters(NoFilter)).total =
                 get_books(books, BookFilters(NoFilter)).total - 1
          /\ \A id \in Ids(books) \ {arg'} : get_book(books', id) = get_book(books, id)
          /\ books' = SelectSeq(books, LAMBDA b : b.id # arg')
          /\ next_id' = next_id]_vars

\* C18 witness: the delete of a record stored between two others.
C18_Witness ==
    /\ op = "delete_book"
    /\ ret = TRUE
    /\ Len(books) = 2
    /\ arg \in seen
    /\ arg \notin Ids(books)
    /\ books[1].id < arg
    /\ arg < books[2].id

\* C19: create_book returns a record with the input title, author and year and
\* with the input tags, or [] when tags are absent; it adds exactly that record,
\* leaving the others as they are; and until the id is deleted get_book of it
\* yields the same record.
C19_CreateRoundTrip ==
    [][/\ op' = "create_book" =>
              /\ ret'.title = Trim(arg'.title)
              /\ ret'.author = Trim(arg'.author)
              /\ ret'.year = arg'.year
              /\ ret'.tags = IF arg'.tags = None THEN <<>> ELSE arg'.tags[1]
              /\ ret'.id \notin Ids(books)
              /\ get_book(books', ret'.id) = Some(ret')
              /\ Len(books') = Len(books) + 1
              /\ \A id \in Ids(books) : get_book(books', id) = get_book(books, id)
       /\ \A id \in Ids(books) \cap Ids(books') : get_book(books', id) = get_book(books, id)]_vars

\* C20: two create_book calls running in parallel threads, interleaved at
\* statement granularity, return distinct ids and both records end up stored.
C20_ParallelCreatesDistinct ==
    (pc # <<>> /\ \A t \in Threads : pc[t] = "done") =>
        /\ local[1].book[1].id # local[2].book[1].id
        /\ \A t \in Threads : get_book(books, local[t].book[1].id) = local[t].book
        /\ Len(books) = creates + 2

\* the status the except clauses give an exception, by the first class matched
StatusFor(exc) ==
    IF "ValueError" \in Mro(exc) THEN 400
    ELSE IF "FileNotFoundError" \in Mro(exc) THEN 404
    ELSE 500

Wrapped == op = "wrapper"

\* C22 as stated: a returned value passes unchanged, and every raised exception
\* is replaced by an HTTPException: 400 for a ValueError, 404 for a
\* FileNotFoundError, 500 for an AttributeError and for anything else, by the
\* first matching class in that order.
C22_EveryExceptionReplaced ==
    Wrapped =>
        /\ arg.outcome.kind = "return" => ret = arg.outcome
        /\ arg.outcome.kind = "raise" =>
              /\ ret.kind = "raise"
              /\ ret.exc = "HTTPException"
              /\ ret.status_code = StatusFor(arg.outcome.exc)
              /\ ret # arg.outcome

\* C22 amended: a returned value passes unchanged; a raised exception that
\* derives from Exception is replaced by an HTTPException (400 for a ValueError,
\* else 404 for a FileNotFoundError, else 500); an exception deriving from
\* BaseException alone (CancelledError, KeyboardInterrupt) escapes unchanged.
C22_ExceptionSubclassesReplaced ==
    Wrapped =>
        /\ arg.outcome.kind = "return" => ret = arg.outcome
        /\ (arg.outcome.kind = "raise" /\ "Exception" \in Mro(arg.outcome.exc)) =>
              /\ ret.kind = "raise"
              /\ ret.exc = "HTTPException"
              /\ ret.status_code = StatusFor(arg.outcome.exc)
              /\ ret # arg.outcome
        /\ (arg.outcome.kind = "raise" /\ "Exception" \notin Mro(arg.outcome.exc)) =>
              ret = arg.outcome

\* C22 witness: an exception that is both a ValueError and a FileNotFoundError
\* came out as a 400.
C22_Witness ==
    /\ Wrapped
    /\ arg.outcome.exc = "FileValueError"
    /\ ret.exc = "HTTPException"
    /\ ret.status_code = 400

Published == "book_repository" \in app_state

\* ids that were stored once and are stored no longer
Gone == seen \ Ids(books)

\* C21: with the repository published, GET /books/{id} answers 404 exactly when
\* the id is not stored and else 200 with the record; DELETE /books/{id} answers
\* 404 exactly when the id is not stored and else 200, removing the record; so
\* a GET or a DELETE of an id deleted before answers 404.
C21_NotFoundIs404 ==
    [][Published =>
          /\ op' = "GET /books/{book_id}" =>
                /\ ret'.status_code \in {200, 404}
                /\ ret'.status_code = 404 <=> arg'.book_id \notin Ids(books)
                /\ ret'.status_code = 200 =>
                       \E i \in 1..Len(books) :
                           books[i].id = arg'.book_id /\ ret'.body = books[i]
                /\ arg'.book_id \in Gone => ret'.status_code = 404
          /\ op' = "DELETE /books/{book_id}" =>
                /\ ret'.status_code \in {200, 404}
                /\ ret'.status_code = 404 <=> arg'.book_id \notin Ids(books)
                /\ ret'.status_code = 200 => arg'.book_id \notin Ids(books')
                /\ arg'.book_id \in Gone => ret'.status_code = 404]_vars

\* C21 witness: a second DELETE of an id, answered 404, while other records
\* are stored.
C21_Witness ==
    /\ Published
    /\ op = "DELETE /books/{book_id}"
    /\ arg.book_id \in Gone
    /\ ret.status_code = 404
    /\ books # <<>>

\* C30: at startup load_initial_books is called at most once, and only before
\* the repository is in app.state and before any create_book; create_book runs
\* only on a published repository; the repository published after a loader
\* exception is empty; and startup always reaches the publication.
C30_StartupLoadsOnceAndPublishes ==
    /\ [](loads <= 1 /\ ~lateLoad)
    /\ [](Published <=> lifespan = "yield")
    /\ [][op' = "lifespan_load" => (~Published /\ creates = 0 /\ loads = 0)]_vars
    /\ [][creates' > creates => Published]_vars
    /\ [][op' = "lifespan_publish" =>
             /\ Published' /\ books' = books /\ next_id' = next_id
             /\ arg.kind = "raise" => (books' = <<>> /\ next_id' = 1 /\ loads' = 0)]_vars
    /\ <>Published

\* C30 witness: an empty repository published after the loader raised.
C30_Witness ==
    /\ op = "lifespan_publish"
    /\ Published
    /\ loads = 0
    /\ books = <<>>

\* C23: after any calls of load_initial_books, create_book and delete_book, in
\* any order, next_id is at least 1 and above every stored id, and it never
\* decreases; so a create_book takes an id that is not stored and every record
\* stored before it is stored after it.
C23_NextIdAboveStoredIds ==
    /\ [](next_id >= 1 /\ \A id \in Ids(books) : id < next_id)
    /\ [][next_id' >= next_id]_vars
    /\ [][op' = "create_book" =>
             /\ ret'.id \notin Ids(books)
             /\ \A i \in 1..Len(books) : books'[i] = books[i]
             /\ Len(books') = Len(books) + 1]_vars

\* C23 witness: a create_book after a load that came after an earlier create,
\* the new record stored behind two others.
C23_Witness ==
    /\ op = "create_book"
    /\ lateLoad
    /\ creates = MaxCreates
    /\ Len(books) >= 3
    /\ books[Len(books)] = ret

\* C25: a load_initial_books that is not the first one, or that comes after a
\* create_book, leaves the stored records and next_id as they were, and no id
\* handed out before is bound to another record by it.
C25_LateLoadRejected ==
    [][(op' = "load_initial_books" /\ (loads > 0 \/ creates > 0)) =>
          /\ books' = books
          /\ next_id' = next_id
          /\ \A id \in Ids(books) : get_book(books', id) = get_book(books, id)]_vars

\* the store and the results after the requests of the tasks in `order` have
\* run one after the other, each to its end, starting from `start`
RECURSIVE Serial(_, _, _)
Serial(start, requests, order) ==
    IF order = <<>> THEN [books |-> start.books, next_id |-> start.next_id, results |-> <<>>]
    ELSE LET p == Serial(start, requests, SubSeq(order, 1, Len(order) - 1))
             t == order[Len(order)]
             q == requests[t]
         IN  IF q.method = "create_book"
             THEN LET book == [id |-> p.next_id, title |-> q.book_data.title,
                               author |-> q.book_data.author, year |-> q.book_data.year,
                               tags |-> IF q.book_data.tags = None THEN <<>>
                                        ELSE q.book_data.tags[1]]
                  IN  [books |-> Append(p.books, book), next_id |-> p.next_id + 1,
                       results |-> Append(p.results, Some(book))]
             ELSE IF q.method = "delete_book"
             THEN [books |-> SelectSeq(p.books, LAMBDA b : b.id # q.book_id),
                   next_id |-> p.next_id,
                   results |-> Append(p.results, Some(q.book_id \in Ids(p.books)))]
             ELSE [books |-> p.books, next_id |-> p.next_id,
                   results |-> Append(p.results,
                       Some(IF q.book_id \in Ids(p.books)
                            THEN Some(CHOOSE b \in {p.books[i] : i \in 1..Len(p.books)} :
                                          b.id = q.book_id)
                            ELSE None))]

Creators == {t \in Tasks : local[t].request.method = "create_book" /\ pc[t] = "done"}

\* C24: with tasks that switch only at awaits, the store and every result are
\* those of the requests run one after the other in the order the tasks ran;
\* concurrent create_book requests get pairwise distinct ids, none of them an
\* id stored before, the counter has moved by the number of creates, and each
\* created record is stored unless a delete_book of its id ran after it.
C24_TasksRunSerially ==
    LET requests == [t \in Tasks |-> local[t].request]
        serial == Serial(handed, requests, acc)
    IN  /\ books = serial.books
        /\ next_id = serial.next_id
        /\ \A k \in 1..Len(acc) : local[acc[k]].result = serial.results[k]
        /\ \A t, u \in Creators : t # u => local[t].result[1].id # local[u].result[1].id
        /\ \A t \in Creators : local[t].result[1].id \notin Ids(handed.books)
        /\ next_id = handed.next_id + Cardinality(Creators)
        /\ \A t \in Creators :
              \/ \E i \in 1..Len(books) : books[i] = local[t].result[1]
              \/ \E u \in Tasks : /\ local[u].request.method = "delete_book"
                                  /\ local[u].request.book_id = local[t].result[1].id
                                  /\ local[u].result = Some(TRUE)

\* C24 witness: three create_book tasks are done, and the one resumed first
\* is not task 1.
C24_Witness ==
    /\ Cardinality(Creators) = 3
    /\ acc[1] # 1
    /\ Len(books) = Len(handed.books) + 3

Unsorted == Queried /\ arg.sort_by = None

OtherOrder(f) ==
    [f EXCEPT !.sort_order = IF f.sort_order = Some("desc") THEN Some("asc") ELSE Some("desc")]

\* C26: without sort_by, get_books pages the filtered records in the order of
\* the store, and the same query with the other sort_order returns the same
\* result.
C26_SortOrderIgnoredWithoutSortBy ==
    Unsorted =>
        /\ handed = filter_books(books, BookFilters(arg))
        /\ \A i, j \in 1..Len(handed) :
              i < j => Pos(books, handed[i].id) < Pos(books, handed[j].id)
        /\ ret.items = Slice(handed, (arg.page - 1) * arg.limit, arg.page * arg.limit)
        /\ ret = get_books(books, BookFilters(OtherOrder(arg)))

\* C26 witness: an unsorted desc query with a filter that returned two or
\* more records.
C26_Witness ==
    /\ Unsorted
    /\ arg.sort_order = Some("desc")
    /\ arg.author # None
    /\ Len(ret.items) >= 2
    /\ Len(ret.items) < Len(books)

\* C27: get_books, get_book and get_stats leave the stored records, their
\* order in the store and next_id as they were.
C27_ReadsLeaveStore ==
    [][op' \in {"get_books", "get_book", "get_stats"} =>
          (books' = books /\ next_id' = next_id)]_vars

\* C27 witness: a sorted, unfiltered get_books whose result is in another
\* order than the store.
C27_Witness ==
    /\ Queried
    /\ arg.sort_by # None
    /\ arg.author = None
    /\ Len(handed) = Len(books)
    /\ handed # books

Stopped == cursor > 0 /\ ~ret.has_next

\* C28: for every page >= 1, has_next of paginate is true exactly when the
\* next page of the same sequence and limit holds an item; so a client that
\* starts at page 1 and follows has_next has, when it stops, read every element
\* once and in order, and the page it stopped on is the last non-empty page,
\* or page 1 of an empty sequence.
C28_HasNextLeadsThroughAllPages ==
    /\ \A page \in 1..MaxPage :
          paginate(handed, page, arg.limit).has_next
              <=> paginate(handed, page + 1, arg.limit).items # <<>>
    /\ cursor > 0 => (ret.has_next <=> Len(acc) < Len(handed))
    /\ Len(acc) <= Len(handed) /\ acc = SubSeq(handed, 1, Len(acc))
    /\ Stopped =>
          /\ acc = handed
          /\ handed = <<>> => (cursor = 1 /\ ret.items = <<>>)
          /\ handed # <<>> => (ret.items # <<>> /\ cursor * arg.limit >= Len(handed)
                               /\ (cursor - 1) * arg.limit < Len(handed))

\* C28 witness: the client stopped on a second page that is full, having
\* read the whole sequence.
C28_Witness ==
    /\ Stopped
    /\ cursor = 2
    /\ Len(ret.items) = arg.limit
    /\ arg.limit > 1
    /\ acc = handed

\* C29: on a repository never seeded by load_initial_books, after any
\* create_book and delete_book calls, the items of a get_books without
\* sort_by are in strictly increasing id order, whatever the filter, page and
\* limit.
C29_UnsortedIsCreationOrder ==
    (Unsorted /\ loads = 0) =>
        \A i, j \in 1..Len(ret.items) : i < j => ret.items[i].id < ret.items[j].id

\* C29 witness: an unsorted query on a store with a deleted id between two
\* stored ones returned the records on either side of the gap, the newest last.
C29_Witness ==
    /\ Unsorted
    /\ loads = 0
    /\ Gone # {}
    /\ Len(ret.items) = 2
    /\ ret.items[1].id + 1 < ret.items[2].id
    /\ ret.items[2].id = next_id - 1
    /\ \E id \in Gone : id < ret.items[2].id

====
